---- MODULE Spec2Model ----
(***************************************************************************)
(* The export orchestrator of the webpage exporter: Website.createWithFiles *)
(* (scripts/objects/website.ts) driving Webpage.create per document, the   *)
(* duplicate-removal and incremental keep/drop passes of filterDownloads,  *)
(* and the export index that makes later runs incremental (Spec); the link *)
(* resolver, link remapping and attachment discovery of one page           *)
(* (src/plugin/website/webpage.ts, SpecLinks); Website.getTitle (SpecTitle).*)
(***************************************************************************)
EXTENDS Integers, Sequences, FiniteSets, TLC

\* ------------------------------------------------------------------ bounds
MaxRuns == 2
MaxTouches == 1
\* elements of a rendered document, calls of getAttachments on it
MaxElements == 2
MaxDiscoveries == 2

\* ------------------------------------------------------------------- paths
\* A path is its directory, the file's stem and the file's extension.
P(dir, stem, ext) == [dir |-> dir, stem |-> stem, ext |-> ext]

IndexMd == P("", "index", "md")
ChildMd == P("", "child", "md")
DataBin == P("", "data", "bin")
ImgA    == P("img", "a", "png")
ImgNew  == P("img", "new", "png")
FontA   == P("fonts", "a", "woff2")
FontB   == P("fonts", "b", "woff")
FontC   == P("fonts", "c", "otf")
FontD   == P("fonts", "d", "ttf")
StyleCss == P("lib", "style", "css")

\* String.endsWith("." + ext) on the file name of a path
EndsWith(path, ext) == path.ext = ext

\* Webpage constructor: this.targetPath.setExtension("html")
TargetPath(file) == [file EXCEPT !.ext = "html"]

\* MarkdownRenderer.isConvertable(file.extension)
isConvertable(ext) == ext \in {"md", "canvas"}

Docs == {IndexMd, ChildMd}
AttachmentPaths == {ImgA, ImgNew, FontA, FontB, FontD}
AssetPaths == {StyleCss, FontA, FontC}
\* every file whose modified time and byte length the export reads
InputPaths == Docs \cup AttachmentPaths \cup AssetPaths
\* the files that change between runs: a document, an attachment that is
\* also a shared asset, and a shared asset
TouchablePaths == {ChildMd, FontA, StyleCss}
OutputPaths == {TargetPath(d) : d \in Docs} \cup AttachmentPaths \cup AssetPaths

Batches == { <<IndexMd, ChildMd>>, <<ChildMd>>, <<IndexMd, DataBin, ChildMd>> }

\* modified times: older than, equal to and newer than the time every file starts with
Times == 1..3
Sizes == {1024, 2048}
BaseMeta == [modifiedTime |-> 2, size |-> 1024]

\* the src references of a rendered document, in document order
PageSources(doc) ==
    IF doc = IndexMd THEN <<ImgA, FontA>> ELSE <<ImgA, ImgNew, FontB, FontD>>

Range(s) == {s[k] : k \in 1..Len(s)}

VARIABLES
    files,            \* Website.batchFiles
    meta,             \* modified time and byte length of every file on disk
    incrementalExport,\* Settings.settings.incrementalExport
    index,            \* the export index as loaded by index.init / written by index.build
    hasIndex,         \* a prior export index exists
    useIncrementalExport, \* createWithFiles: local useIncrementalExport
    pc,               \* where createWithFiles is
    i,                \* position of the for-of loop in files (1-based)
    webpages,         \* Website.webpages (source files of the built pages)
    dependencies,     \* Website.dependencies
    downloads,        \* Website.downloads
    cancelled,        \* MarkdownRenderer.checkCancelled()
    run,              \* number of createWithFiles calls so far
    touches,          \* number of source changes so far
    \* ---- history of the current run
    reached,          \* documents that got to the export decision (line 104)
    created,          \* documents webpage.create was invoked for
    skipped,          \* documents skipped by the incremental decision
    noPage,           \* documents whose create returned no page
    built,            \* index.build was executed
    committed,        \* the downloads list index.build saw
    collected,        \* downloads as collected by the loop plus the shared assets
    indexAtStart,     \* the index at the start of the run
    lastRun,          \* how the previous run ended, "none" once a source changed
    repeatOf          \* lastRun as found at the start of an incremental-mode run

\* one rendered document in Webpage.build and Webpage.getAttachments
VARIABLES
    relativeHeaderLinks, \* exportOptions.relativeHeaderLinks
    document,         \* the [href] and [src] elements of the document, in order
    attachments,      \* Webpage.attachments
    remapped,         \* build has run remapLinks and remapEmbedLinks
    discovered        \* number of getAttachments calls so far

\* one call of Website.getTitle
VARIABLES
    titleProperty,    \* Settings.settings.titleProperty
    showDefaultTreeIcons, \* Settings.settings.showDefaultTreeIcons
    titleFile,        \* the TFile passed to getTitle
    frontmatter,      \* app.metadataCache.getFileCache(file)?.frontmatter
    titleInfo         \* what getTitle returned

\* one call of Webpage.addTitle
VARIABLES
    pageType,         \* Webpage.type
    showInlineTitle,  \* document.body has the class show-inline-title
    isDefaultTitle,   \* titleInfo.isDefaultTitle
    sourceBasename,   \* Webpage.source.basename
    pageTitle,        \* Webpage.title
    firstHeader,      \* the first heading of the document outside embeds
    titleElement      \* the h1.page-title element addTitle creates

websiteVars == <<files, meta, incrementalExport, index, hasIndex, useIncrementalExport,
          pc, i, webpages, dependencies, downloads, cancelled, run, touches,
          reached, created, skipped, noPage, built, committed, collected,
          indexAtStart, lastRun, repeatOf>>
linkVars == <<relativeHeaderLinks, document, attachments, remapped, discovered>>
titleVars == <<titleProperty, showDefaultTreeIcons, titleFile, frontmatter, titleInfo>>
headingVars == <<pageType, showInlineTitle, isDefaultTitle, sourceBasename,
                 pageTitle, firstHeader, titleElement>>
vars == <<websiteVars, linkVars, titleVars, headingVars>>

\* ------------------------------------------------------------ export index
NoRecord == [has |-> FALSE, modifiedTime |-> 0, sourceSize |-> 0]
Record(t, s) == [has |-> TRUE, modifiedTime |-> t, sourceSize |-> s]
EmptyIndex == [p \in OutputPaths |-> NoRecord]

\* WebsiteIndex.shouldApplyIncrementalExport
shouldApplyIncrementalExport(setting, prior) == setting /\ prior

\* WebsiteIndex.hasFileByPath
hasFileByPath(idx, path) == idx[path].has

\* WebsiteIndex.getMetadataForPath
getMetadataForPath(idx, path) == idx[path]

\* WebsiteIndex.isFileChanged(file)
isFileChanged(idx, file, m) ==
    LET rec == idx[TargetPath(file)] IN
    \/ ~rec.has
    \/ m[file].modifiedTime > rec.modifiedTime
    \/ m[file].size # rec.sourceSize

\* WebsiteIndex.build: one record per path of the list it is given
RECURSIVE build(_, _)
build(idx, list) ==
    IF list = <<>> THEN idx
    ELSE LET f == Head(list) IN
         build([idx EXCEPT ![f.relativeDownloadPath.asString] =
                               Record(f.modifiedTime, f.size)],
               Tail(list))

\* ------------------------------------------------------------ downloadables
\* relativeDownloadPath is a Path object: ref names the object, asString its
\* text.  Two Path objects are == only when they are the same object.
Downloadable(owner, path, m) ==
    [relativeDownloadPath |-> [ref |-> owner, asString |-> path],
     modifiedTime |-> m[path].modifiedTime,
     size |-> m[path].size]

\* webpage.getSelfDownloadable(): the page file, stamped with its source
SelfDownloadable(doc, m) ==
    [relativeDownloadPath |-> [ref |-> doc.stem, asString |-> TargetPath(doc)],
     modifiedTime |-> m[doc].modifiedTime,
     size |-> m[doc].size]

\* webpage.dependencies of a built page
WebpageDependencies(doc, owner, m) ==
    [k \in 1..Len(PageSources(doc)) |-> Downloadable(owner, PageSources(doc)[k], m)]

\* AssetHandler.getAssetDownloads()
getAssetDownloads(m) ==
    << Downloadable("asset", StyleCss, m), Downloadable("asset", FontA, m),
       Downloadable("asset", FontC, m) >>

\* --------------------------------------------------------- filterDownloads
\* Array.findIndex((f) => f.relativeDownloadPath == file.relativeDownloadPath);
\* only called with a file of the list, so an index is always found
findIndex(list, file) ==
    CHOOSE k \in 1..Len(list) :
        /\ list[k].relativeDownloadPath = file.relativeDownloadPath
        /\ \A j \in 1..(k - 1) :
               list[j].relativeDownloadPath # file.relativeDownloadPath

\* the entries of list at the positions in keep, in list order
RECURSIVE FilterAt(_, _, _)
FilterAt(list, keep, k) ==
    IF k > Len(list) THEN <<>>
    ELSE (IF k \in keep THEN <<list[k]>> ELSE <<>>) \o FilterAt(list, keep, k + 1)

\* list.filter((file, index) => list.findIndex(...) == index)
RemoveDuplicates(list) ==
    FilterAt(list, {k \in 1..Len(list) : findIndex(list, list[k]) = k}, 1)

IsFont(path) ==
    \/ EndsWith(path, "woff") \/ EndsWith(path, "woff2")
    \/ EndsWith(path, "otf") \/ EndsWith(path, "ttf")

\* filterFunction without the .woff2 test of the font rule
filterBranch_noWoff2(file, idx) ==
    LET path == file.relativeDownloadPath.asString IN
    IF EndsWith(path, "html") THEN "html"
    ELSE IF \/ (hasFileByPath(idx, path) /\ EndsWith(path, "woff"))
            \/ EndsWith(path, "otf")
            \/ EndsWith(path, "ttf")
         THEN "font"
    ELSE LET metadata == getMetadataForPath(idx, path) IN
         IF metadata.has /\ (\/ file.modifiedTime > metadata.modifiedTime
                             \/ metadata.sourceSize # file.size)
         THEN "modified"
         ELSE "unmodified"

\* filterFunction with >= for > in the modified-time comparison
filterBranch_ge(file, idx) ==
    LET path == file.relativeDownloadPath.asString IN
    IF EndsWith(path, "html") THEN "html"
    ELSE IF \/ (hasFileByPath(idx, path) /\ EndsWith(path, "woff"))
            \/ EndsWith(path, "woff2")
            \/ EndsWith(path, "otf")
            \/ EndsWith(path, "ttf")
         THEN "font"
    ELSE LET metadata == getMetadataForPath(idx, path) IN
         IF metadata.has /\ (\/ file.modifiedTime >= metadata.modifiedTime
                             \/ metadata.sourceSize # file.size)
         THEN "modified"
         ELSE "unmodified"

\* filterFunction without the "always include .html files" rule
filterBranch_noHtml(file, idx) ==
    LET path == file.relativeDownloadPath.asString IN
    IF \/ (hasFileByPath(idx, path) /\ EndsWith(path, "woff"))
       \/ EndsWith(path, "woff2")
       \/ EndsWith(path, "otf")
       \/ EndsWith(path, "ttf")
    THEN "font"
    ELSE LET metadata == getMetadataForPath(idx, path) IN
         IF metadata.has /\ (\/ file.modifiedTime > metadata.modifiedTime
                             \/ metadata.sourceSize # file.size)
         THEN "modified"
         ELSE "unmodified"

\* which return statement of filterFunction a file leaves by
filterBranch(file, idx) ==
    LET path == file.relativeDownloadPath.asString IN
    IF EndsWith(path, "html") THEN "html"
    ELSE IF \/ (hasFileByPath(idx, path) /\ EndsWith(path, "woff"))
            \/ EndsWith(path, "woff2")
            \/ EndsWith(path, "otf")
            \/ EndsWith(path, "ttf")
         THEN "font"
    ELSE LET metadata == getMetadataForPath(idx, path) IN
         IF metadata.has /\ (\/ file.modifiedTime > metadata.modifiedTime
                             \/ metadata.sourceSize # file.size)
         THEN "modified"
         ELSE "unmodified"

filterFunction(file, idx) == filterBranch(file, idx) \in {"html", "modified"}

KeepDrop(list, idx) ==
    FilterAt(list, {k \in 1..Len(list) : filterFunction(list[k], idx)}, 1)

\* filterDownloads without the shouldApplyIncrementalExport test of line 133
filterDownloads_alwaysKeepDrop(list, onlyDuplicates, incremental, idx) ==
    LET deduped == RemoveDuplicates(list) IN
    IF onlyDuplicates THEN deduped
    ELSE KeepDrop(deduped, idx)

\* Website.filterDownloads applied to one of the two lists
filterDownloads(list, onlyDuplicates, incremental, idx) ==
    LET deduped == RemoveDuplicates(list) IN
    IF ~incremental \/ onlyDuplicates THEN deduped
    ELSE KeepDrop(deduped, idx)

\* index.build called after the second filterDownloads() instead
BuildInput_afterFilter(list, incremental, idx) ==
    filterDownloads(list, FALSE, incremental, idx)

\* the list index.build reads: createWithFiles calls it between
\* filterDownloads(true) and filterDownloads()
BuildInput(list, incremental, idx) == filterDownloads(list, TRUE, incremental, idx)

\* --------------------------------------------------------- createWithFiles
\* line 104 with "|| useIncrementalExport" for "|| !useIncrementalExport"
shouldExportPage_notNegated(incremental, changed) ==
    (incremental /\ changed) \/ incremental

\* line 104 with the result of isFileChanged negated
shouldExportPage_unchanged(incremental, changed) ==
    (incremental /\ ~changed) \/ ~incremental

\* line 104 with || for &&
shouldExportPage_or(incremental, changed) ==
    (incremental \/ changed) \/ ~incremental

shouldExportPage(incremental, changed) ==
    (incremental /\ changed) \/ ~incremental

Idle == pc \in {"idle", "done", "cancelled", "threw"}

\* no document is being built and getTitle has not been called
LinksIdle ==
    /\ relativeHeaderLinks = FALSE
    /\ document = <<>>
    /\ attachments = <<>>
    /\ remapped = FALSE
    /\ discovered = 0

\* ------------------------------------------------------------ first heading
NoHeader == [exists |-> FALSE, tag |-> "", text |-> <<>>, inSizer |-> FALSE,
             childPosition |-> 0, removed |-> FALSE]
NoTitleElement == [inserted |-> FALSE, id |-> <<>>, inline |-> FALSE]

\* addTitle has not been called
HeadingIdle ==
    /\ pageType = "markdown"
    /\ showInlineTitle = FALSE
    /\ isDefaultTitle = FALSE
    /\ sourceBasename = <<>>
    /\ pageTitle = <<>>
    /\ firstHeader = NoHeader
    /\ titleElement = NoTitleElement

\* ------------------------------------------------------ frontmatter values
\* a frontmatter property: missing, null (a key without a value) or a string
Missing == [is |-> "undefined", text |-> ""]
Null == [is |-> "null", text |-> ""]
Value(text) == [is |-> "string", text |-> text]

FrontmatterKeys == {"title", "name", "banner_header", "icon", "sticker", "banner_icon"}
\* file caches without a frontmatter block
NoFrontmatter == [defined |-> FALSE, props |-> [k \in FrontmatterKeys |-> Missing]]
NoTitleInfo == [returned |-> FALSE, title |-> Missing, icon |-> Missing,
                isDefaultIcon |-> FALSE]

TitleIdle ==
    /\ titleProperty = "title"
    /\ showDefaultTreeIcons = FALSE
    /\ titleFile = [basename |-> "index", extension |-> "md"]
    /\ frontmatter = NoFrontmatter
    /\ titleInfo = NoTitleInfo

\* the state after the Website object is constructed
WebsiteInit ==
    /\ files \in Batches
    /\ meta = [p \in InputPaths |-> BaseMeta]
    /\ incrementalExport = FALSE
    /\ index = EmptyIndex
    /\ hasIndex = FALSE
    /\ useIncrementalExport = FALSE
    /\ pc = "idle"
    /\ i = 1
    /\ webpages = <<>>
    /\ dependencies = <<>>
    /\ downloads = <<>>
    /\ cancelled = FALSE
    /\ run = 0
    /\ touches = 0
    /\ reached = {}
    /\ created = {}
    /\ skipped = {}
    /\ noPage = {}
    /\ built = FALSE
    /\ committed = <<>>
    /\ collected = <<>>
    /\ indexAtStart = index
    /\ lastRun = "none"
    /\ repeatOf = "none"

Init ==
    /\ LinksIdle
    /\ TitleIdle
    /\ HeadingIdle
    /\ WebsiteInit

\* a source file, attachment or asset changes on disk between two runs (a
\* change before the first or after the last run changes no run); the
\* Website object of the finished run is dropped with it
Touch(p, t, s) ==
    /\ Idle
    /\ touches < MaxTouches
    /\ run \in 1..(MaxRuns - 1)
    /\ meta[p] # [modifiedTime |-> t, size |-> s]
    /\ meta' = [meta EXCEPT ![p] = [modifiedTime |-> t, size |-> s]]
    /\ touches' = touches + 1
    /\ lastRun' = "none"
    /\ pc' = "idle"
    /\ incrementalExport' = FALSE
    /\ useIncrementalExport' = FALSE
    /\ i' = 1
    /\ webpages' = <<>>
    /\ dependencies' = <<>>
    /\ downloads' = <<>>
    /\ cancelled' = FALSE
    /\ reached' = {}
    /\ created' = {}
    /\ skipped' = {}
    /\ noPage' = {}
    /\ built' = FALSE
    /\ committed' = <<>>
    /\ collected' = <<>>
    /\ indexAtStart' = index
    /\ repeatOf' = "none"
    /\ UNCHANGED <<files, index, hasIndex, run>>
    /\ UNCHANGED <<linkVars, titleVars, headingVars>>

\* new Website(); createWithFiles lines 87-94 (initExport loads the index)
Start(setting) ==
    /\ Idle
    /\ run < MaxRuns
    /\ run' = run + 1
    /\ incrementalExport' = setting
    /\ useIncrementalExport' = shouldApplyIncrementalExport(setting, hasIndex)
    /\ pc' = "loop"
    /\ i' = 1
    /\ webpages' = <<>>
    /\ dependencies' = <<>>
    /\ downloads' = <<>>
    /\ cancelled' = FALSE
    /\ reached' = {}
    /\ created' = {}
    /\ skipped' = {}
    /\ noPage' = {}
    /\ built' = FALSE
    /\ committed' = <<>>
    /\ collected' = <<>>
    /\ indexAtStart' = index
    /\ repeatOf' = IF setting THEN lastRun ELSE "none"
    /\ UNCHANGED <<files, meta, index, hasIndex, touches, lastRun>>
    /\ UNCHANGED <<linkVars, titleVars, headingVars>>

\* the user cancels the export while createWithFiles is suspended
Cancel ==
    /\ pc \in {"loop", "rendering", "building"}
    /\ ~cancelled
    /\ cancelled' = TRUE
    /\ UNCHANGED <<files, meta, incrementalExport, index, hasIndex,
                   useIncrementalExport, pc, i, webpages, dependencies,
                   downloads, run, touches, reached, created, skipped, noPage,
                   built, committed, collected, indexAtStart, lastRun, repeatOf>>
    /\ UNCHANGED <<linkVars, titleVars, headingVars>>

\* line 98: if (MarkdownRenderer.checkCancelled()) return undefined
LoopCancelled ==
    /\ pc = "loop"
    /\ i <= Len(files)
    /\ cancelled
    /\ pc' = "cancelled"
    /\ lastRun' = "none"
    /\ UNCHANGED <<files, meta, incrementalExport, index, hasIndex,
                   useIncrementalExport, i, webpages, dependencies, downloads,
                   cancelled, run, touches, reached, created, skipped, noPage,
                   built, committed, collected, indexAtStart, repeatOf>>
    /\ UNCHANGED <<linkVars, titleVars, headingVars>>

\* line 103: new Webpage(file, ...) throws for a file that is not convertable
ConstructorThrows ==
    /\ pc = "loop"
    /\ i <= Len(files)
    /\ ~cancelled
    /\ ~isConvertable(files[i].ext)
    /\ pc' = "threw"
    /\ lastRun' = "none"
    /\ UNCHANGED <<files, meta, incrementalExport, index, hasIndex,
                   useIncrementalExport, i, webpages, dependencies, downloads,
                   cancelled, run, touches, reached, created, skipped, noPage,
                   built, committed, collected, indexAtStart, repeatOf>>
    /\ UNCHANGED <<linkVars, titleVars, headingVars>>

\* lines 104-105: the document is not exported in this run
SkipUnchanged ==
    /\ pc = "loop"
    /\ i <= Len(files)
    /\ ~cancelled
    /\ isConvertable(files[i].ext)
    /\ ~shouldExportPage(useIncrementalExport, isFileChanged(index, files[i], meta))
    /\ i' = i + 1
    /\ reached' = reached \cup {files[i]}
    /\ skipped' = skipped \cup {files[i]}
    /\ UNCHANGED <<files, meta, incrementalExport, index, hasIndex,
                   useIncrementalExport, pc, webpages, dependencies, downloads,
                   cancelled, run, touches, created, noPage, built, committed,
                   collected, indexAtStart, lastRun, repeatOf>>
    /\ UNCHANGED <<linkVars, titleVars, headingVars>>

\* lines 104-107: await webpage.create()
\* line 106 without the await: the loop goes on while the page is being built
BeginCreate_noAwait ==
    /\ pc = "loop"
    /\ i <= Len(files)
    /\ ~cancelled
    /\ isConvertable(files[i].ext)
    /\ shouldExportPage(useIncrementalExport, isFileChanged(index, files[i], meta))
    /\ i' = i + 1
    /\ reached' = reached \cup {files[i]}
    /\ created' = created \cup {files[i]}
    /\ UNCHANGED <<files, meta, incrementalExport, index, hasIndex,
                   useIncrementalExport, pc, webpages, dependencies, downloads,
                   cancelled, run, touches, skipped, noPage, built, committed,
                   collected, indexAtStart, lastRun, repeatOf>>
    /\ UNCHANGED <<linkVars, titleVars, headingVars>>

\* lines 104-106: the document is to be exported; webpage.create is awaited
BeginCreate ==
    /\ pc = "loop"
    /\ i <= Len(files)
    /\ ~cancelled
    /\ isConvertable(files[i].ext)
    /\ shouldExportPage(useIncrementalExport, isFileChanged(index, files[i], meta))
    /\ pc' = "rendering"
    /\ reached' = reached \cup {files[i]}
    /\ created' = created \cup {files[i]}
    /\ UNCHANGED <<files, meta, incrementalExport, index, hasIndex,
                   useIncrementalExport, i, webpages, dependencies, downloads,
                   cancelled, run, touches, skipped, noPage, built, committed,
                   collected, indexAtStart, lastRun, repeatOf>>
    /\ UNCHANGED <<linkVars, titleVars, headingVars>>

\* line 108 with "return undefined" for "continue"
RenderReturns_return(hasContent) ==
    /\ pc = "rendering"
    /\ IF hasContent /\ ~cancelled
       THEN /\ pc' = "building"
            /\ UNCHANGED <<i, noPage>>
       ELSE /\ pc' = "cancelled"
            /\ i' = i + 1
            /\ noPage' = noPage \cup {files[i]}
    /\ UNCHANGED <<files, meta, incrementalExport, index, hasIndex,
                   useIncrementalExport, webpages, dependencies, downloads,
                   cancelled, run, touches, reached, created, skipped, built,
                   committed, collected, indexAtStart, lastRun, repeatOf>>
    /\ UNCHANGED <<linkVars, titleVars, headingVars>>

\* Webpage.populateDocument lines 546-554: the renderer returns; no page when
\* the content is empty or the export was cancelled meanwhile (line 108)
RenderReturns(hasContent) ==
    /\ pc = "rendering"
    /\ IF hasContent /\ ~cancelled
       THEN /\ pc' = "building"
            /\ UNCHANGED <<i, noPage>>
       ELSE /\ pc' = "loop"
            /\ i' = i + 1
            /\ noPage' = noPage \cup {files[i]}
    /\ UNCHANGED <<files, meta, incrementalExport, index, hasIndex,
                   useIncrementalExport, webpages, dependencies, downloads,
                   cancelled, run, touches, reached, created, skipped, built,
                   committed, collected, indexAtStart, lastRun, repeatOf>>
    /\ UNCHANGED <<linkVars, titleVars, headingVars>>

\* Webpage.build returns the page; lines 110-113.  The page's attachments
\* are either the objects registered for the whole site or its own objects.
BuildReturns(shared) ==
    /\ pc = "building"
    /\ LET doc == files[i]
           deps == WebpageDependencies(doc, IF shared THEN "site" ELSE doc.stem, meta)
       IN /\ webpages' = Append(webpages, doc)
          /\ downloads' = Append(downloads \o deps, SelfDownloadable(doc, meta))
          /\ dependencies' = dependencies \o deps
    /\ pc' = "loop"
    /\ i' = i + 1
    /\ UNCHANGED <<files, meta, incrementalExport, index, hasIndex,
                   useIncrementalExport, cancelled, run, touches, reached,
                   created, skipped, noPage, built, committed, collected,
                   indexAtStart, lastRun, repeatOf>>
    /\ UNCHANGED <<linkVars, titleVars, headingVars>>

\* lines 116-123: the loop is over; aggregate, remove duplicates, build the
\* index, apply the incremental keep/drop pass, return this
\* lines 116-123 with filterDownloads filtering this.downloads only
Finish_downloadsOnly ==
    /\ pc = "loop"
    /\ i > Len(files)
    /\ LET allDeps == dependencies \o getAssetDownloads(meta)
           allDownloads == downloads \o getAssetDownloads(meta)
           seen == BuildInput(allDownloads, useIncrementalExport, index)
       IN /\ collected' = allDownloads
          /\ committed' = seen
          /\ index' = build(index, seen)
          /\ dependencies' = allDeps
          /\ downloads' = filterDownloads(
                 filterDownloads(allDownloads, TRUE, useIncrementalExport, index),
                 FALSE, useIncrementalExport, index)
    /\ hasIndex' = TRUE
    /\ built' = TRUE
    /\ pc' = "done"
    /\ lastRun' = IF ~incrementalExport THEN "none"
                  ELSE IF noPage = {} THEN "allBuilt" ELSE "completed"
    /\ UNCHANGED <<files, meta, incrementalExport, useIncrementalExport, i,
                   webpages, cancelled, run, touches, reached, created, skipped,
                   noPage, indexAtStart, repeatOf>>
    /\ UNCHANGED <<linkVars, titleVars, headingVars>>

Finish ==
    /\ pc = "loop"
    /\ i > Len(files)
    /\ LET allDeps == dependencies \o getAssetDownloads(meta)
           allDownloads == downloads \o getAssetDownloads(meta)
           seen == BuildInput(allDownloads, useIncrementalExport, index)
       IN /\ collected' = allDownloads
          /\ committed' = seen
          /\ index' = build(index, seen)
          /\ dependencies' = filterDownloads(
                 filterDownloads(allDeps, TRUE, useIncrementalExport, index),
                 FALSE, useIncrementalExport, index)
          /\ downloads' = filterDownloads(
                 filterDownloads(allDownloads, TRUE, useIncrementalExport, index),
                 FALSE, useIncrementalExport, index)
    /\ hasIndex' = TRUE
    /\ built' = TRUE
    /\ pc' = "done"
    /\ lastRun' = IF ~incrementalExport THEN "none"
                  ELSE IF noPage = {} THEN "allBuilt" ELSE "completed"
    /\ UNCHANGED <<files, meta, incrementalExport, useIncrementalExport, i,
                   webpages, cancelled, run, touches, reached, created, skipped,
                   noPage, indexAtStart, repeatOf>>
    /\ UNCHANGED <<linkVars, titleVars, headingVars>>

Next ==
    \/ \E p \in TouchablePaths, t \in Times, s \in Sizes : Touch(p, t, s)
    \/ \E setting \in BOOLEAN : Start(setting)
    \/ Cancel
    \/ LoopCancelled
    \/ ConstructorThrows
    \/ SkipUnchanged
    \/ BeginCreate
    \/ \E hasContent \in BOOLEAN : RenderReturns(hasContent)
    \/ \E shared \in BOOLEAN : BuildReturns(shared)
    \/ Finish

Spec == Init /\ [][Next]_vars

TypeOK ==
    /\ files \in Batches
    /\ pc \in {"idle", "loop", "rendering", "building", "done", "cancelled", "threw"}
    /\ i \in 1..(Len(files) + 1)
    /\ run \in 0..MaxRuns
    /\ touches \in 0..MaxTouches
    /\ Range(webpages) \subseteq Docs
    /\ created \subseteq Docs
    /\ skipped \subseteq Docs

\* =============================================================== one page
\* Strings are lists of characters.
\* the characters \w of a regular expression matches
WordChars ==
    {"a", "b", "c", "d", "e", "f", "g", "h", "i", "j", "k", "l", "m", "n", "o", "p", "q", "r", "s", "t", "u", "v", "w", "x", "y", "z",
     "A", "B", "C", "D", "E", "F", "G", "H", "I", "J", "K", "L", "M", "N", "O", "P", "Q", "R", "S", "T", "U", "V", "W", "X", "Y", "Z",
     "0", "1", "2", "3", "4", "5", "6", "7", "8", "9", "_"}

\* link values found in href and src attributes
LinkHttp == <<"h", "t", "t", "p", ":", "/", "/", "x", ".", "i", "o", "/", "a", " ", "b", "#", "c", ":", "d">>
LinkUnc == <<"s", "m", "b", ":", "\\", "\\", "h">>
LinkApp == <<"a", "p", "p", ":", "/", "/", "v", "/", "i", "m", "g", "/", "a", ".", "p", "n", "g">>
LinkData == <<"d", "a", "t", "a", ":", ",", "A", " ", "B">>
LinkQuery == <<"?", "q", "=", "1">>
LinkHeading == <<"#", "I", "n", "t", "r", "o", ":", " ", "S", "e", "t", "u", "p">>
LinkHeadingLong == <<"#", "A", " ", "B", ":", " ", "C">>
LinkHeadingUrl == <<"#", "a", ":", "/", "/", "b">>
LinkPage == <<"n", "o", "t", "e", "s", "/", "c", "h", "i", "l", "d", ".", "m", "d">>
LinkPageSection == <<"n", "o", "t", "e", "s", "/", "c", "h", "i", "l", "d", ".", "m", "d", "#", "S", "e", "c", "t", "i", "o", "n", " ", "O", "n", "e">>
LinkPageColon == <<"n", "o", "t", "e", "s", "/", "c", "h", "i", "l", "d", ".", "m", "d", "#", "A", " ", "B", ":", " ", "C">>
LinkPageQuery == <<"n", "o", "t", "e", "s", "/", "c", "h", "i", "l", "d", ".", "m", "d", "?", "v", "=", "1", "#", "T", "o", "p">>
LinkPageNested == <<"n", "o", "t", "e", "s", "/", "c", "h", "i", "l", "d", ".", "m", "d", "#", "O", "n", "e", "#", "T", "w", "o">>
LinkPageNoFragment == <<"n", "o", "t", "e", "s", "/", "c", "h", "i", "l", "d", ".", "m", "d", "#">>
LinkImage == <<"i", "m", "g", "/", "a", ".", "p", "n", "g">>
LinkImageFragment == <<"i", "m", "g", "/", "a", ".", "p", "n", "g", "#", "x", " ", "y", ":", "z">>
LinkNew == <<"i", "m", "g", "/", "n", "e", "w", ".", "p", "n", "g">>
LinkGone == <<"g", "o", "n", "e", ".", "m", "d">>
LinkEmpty == <<>>

Links ==
    {LinkHttp, LinkUnc, LinkApp, LinkData, LinkQuery,
     LinkHeading, LinkHeadingLong, LinkHeadingUrl,
     LinkPage, LinkPageSection, LinkPageColon, LinkPageQuery,
     LinkPageNested, LinkPageNoFragment,
     LinkImage, LinkImageFragment, LinkNew, LinkGone, LinkEmpty}

\* the page being built: Webpage.source.path and Webpage.targetPath
PageSourcePath == <<"n", "o", "t", "e", "s", "/", "i", "n", "d", "e", "x", ".", "m", "d">>
PageTargetPath == <<"n", "o", "t", "e", "s", "/", "i", "n", "d", "e", "x", ".", "h", "t", "m", "l">>

\* the literals of resolveLink and getAttachments
AppPrefix == <<"a", "p", "p", ":", "/", "/">>
DataPrefix == <<"d", "a", "t", "a", ":">>
HtmlExtension == <<"h", "t", "m", "l">>

\* the files index.getFile knows: a page and an image
ChildAttachment == [sourcePath |-> <<"n", "o", "t", "e", "s", "/", "c", "h", "i", "l", "d", ".", "m", "d">>, targetPath |-> <<"n", "o", "t", "e", "s", "/", "c", "h", "i", "l", "d", ".", "h", "t", "m", "l">>]
ImageAttachment == [sourcePath |-> <<"i", "m", "g", "/", "a", ".", "p", "n", "g">>, targetPath |-> <<"i", "m", "g", "/", "a", ".", "p", "n", "g">>]
KnownFiles == {ChildAttachment, ImageAttachment}
\* a file of the vault the index does not know yet
NewAttachment == [sourcePath |-> <<"i", "m", "g", "/", "n", "e", "w", ".", "p", "n", "g">>, targetPath |-> <<"i", "m", "g", "/", "n", "e", "w", ".", "p", "n", "g">>]
VaultFiles == {NewAttachment}

\* ---------------------------------------------------------- string functions
\* String.startsWith
StartsWith(str, prefix) ==
    /\ Len(str) >= Len(prefix)
    /\ SubSeq(str, 1, Len(prefix)) = prefix

\* String.indexOf, 1-based, 0 when the character does not occur
IndexOf(str, c) ==
    IF \E k \in 1..Len(str) : str[k] = c
    THEN CHOOSE k \in 1..Len(str) :
             str[k] = c /\ \A j \in 1..(k - 1) : str[j] # c
    ELSE 0

\* a value of type string | undefined
Undefined == [defined |-> FALSE, value |-> <<>>]
Some(str) == [defined |-> TRUE, value |-> str]

\* String.split(c)[0]
SplitFirst(str, c) ==
    IF IndexOf(str, c) = 0 THEN str ELSE SubSeq(str, 1, IndexOf(str, c) - 1)

\* String.split(c)[1]
SplitSecond(str, c) ==
    IF IndexOf(str, c) = 0 THEN Undefined
    ELSE Some(SplitFirst(SubSeq(str, IndexOf(str, c) + 1, Len(str)), c))

\* String.replaceAll(c, to)
RECURSIVE replaceAll(_, _, _)
replaceAll(str, c, to) ==
    IF str = <<>> THEN <<>>
    ELSE (IF Head(str) = c THEN to ELSE <<Head(str)>>) \o replaceAll(Tail(str), c, to)

\* /\w+:(\/\/|\\\\)/.exec(link): the pattern is not anchored
matchesScheme(link) ==
    \E k \in 1..(Len(link) - 3) :
        /\ link[k] \in WordChars
        /\ link[k + 1] = ":"
        /\ \/ link[k + 2] = "/" /\ link[k + 3] = "/"
           \/ link[k + 2] = "\\" /\ link[k + 3] = "\\"

\* Path.extensionName: the characters after the last dot
RECURSIVE extensionName(_)
extensionName(path) ==
    IF IndexOf(path, ".") = 0 THEN path
    ELSE extensionName(SubSeq(path, IndexOf(path, ".") + 1, Len(path)))

\* ------------------------------------------------------------- the registry
\* an Attachment object or undefined; object tells apart the objects made
\* for one file: 0 is the one the index holds
NoFile == [found |-> FALSE, sourcePath |-> <<>>, targetPath |-> <<>>, object |-> 0]
Found(file, object) == [found |-> TRUE, sourcePath |-> file.sourcePath,
                        targetPath |-> file.targetPath, object |-> object]

\* Website.getFilePathFromSrc(src, source.path).pathname: the path of a link,
\* without its query and fragment
getFilePathFromSrc(src) == SplitFirst(SplitFirst(src, "#"), "?")

\* WebsiteIndex.getFile(sourcePath)
getFile(sourcePath) ==
    IF \E f \in KnownFiles : f.sourcePath = sourcePath
    THEN Found(CHOOSE f \in KnownFiles : f.sourcePath = sourcePath, 0)
    ELSE NoFile

\* Website.createAttachmentFromSrc(src, source): a new Attachment object for
\* a file of the vault, undefined when there is none
createAttachmentFromSrc(src, object) ==
    IF \E f \in VaultFiles : f.sourcePath = getFilePathFromSrc(src)
    THEN Found(CHOOSE f \in VaultFiles : f.sourcePath = getFilePathFromSrc(src),
               object)
    ELSE NoFile

\* ------------------------------------------------------------ link resolver
\* Webpage.headingTextToID
headingTextToID(heading) ==
    replaceAll(replaceAll(heading, " ", <<"_">>), ":", <<>>)

\* lines 610-613: the link is a URL (except app://) or a data URL
isExternal(link) ==
    \/ ~StartsWith(link, AppPrefix) /\ matchesScheme(link)
    \/ StartsWith(link, DataPrefix)

\* lines 617-624 with the test of relativeHeaderLinks not negated
resolveHeading_notNegated(link, relative) ==
    IF relative THEN PageTargetPath \o headingTextToID(link)
    ELSE headingTextToID(link)

\* lines 617-624: a link that starts with "#"
resolveHeading(link, relative) ==
    IF ~relative THEN PageTargetPath \o headingTextToID(link)
    ELSE headingTextToID(link)

\* lines 634-637 without the test for a page target
resolveFile_alwaysSlug(link, attachment) ==
    LET second == SplitSecond(link, "#")
        hash == IF second.defined THEN second.value ELSE <<>>
        withMark == IF hash # <<>> THEN <<"#">> \o hash ELSE hash
    IN attachment.targetPath \o headingTextToID(withMark)

\* lines 634-637: the output path of a known file and the link's fragment
resolveFile(link, attachment) ==
    LET second == SplitSecond(link, "#")
        hash == IF second.defined THEN second.value ELSE <<>>
        withMark == IF hash # <<>> THEN <<"#">> \o hash ELSE hash
    IN attachment.targetPath \o
           (IF extensionName(attachment.targetPath) = HtmlExtension
            THEN headingTextToID(withMark)
            ELSE withMark)

\* Webpage.resolveLink
resolveLink(link, relative) ==
    IF link = <<>> THEN Some(<<>>)
    ELSE IF ~StartsWith(link, AppPrefix) /\ matchesScheme(link) THEN Undefined
    ELSE IF StartsWith(link, DataPrefix) THEN Undefined
    ELSE IF StartsWith(link, <<"?">>) THEN Undefined
    ELSE IF StartsWith(link, <<"#">>) THEN Some(resolveHeading(link, relative))
    ELSE LET linkSplit == SplitFirst(SplitFirst(link, "#"), "?")
             attachment == getFile(getFilePathFromSrc(linkSplit))
         IN IF ~attachment.found THEN Undefined
            ELSE Some(resolveFile(link, attachment))

\* !newHref: undefined and the empty string are falsy
Falsy(result) == ~result.defined \/ result.value = <<>>

\* an element that has an href or a src attribute
Element(attr, value, unresolved) ==
    [attr |-> attr, value |-> value, target |-> "", unresolved |-> unresolved,
     original |-> value]

\* lines 653-657 and 668-672 with the resolved value written even when undefined
remapElement_dropUnresolved(el, relative) ==
    LET newHref == resolveLink(el.value, relative) IN
    [el EXCEPT !.value = newHref.value,
               !.target = "_self",
               !.unresolved = Falsy(newHref)]

\* lines 653-657 and 668-672: one pass of the loop
remapElement(el, relative) ==
    LET newHref == resolveLink(el.value, relative) IN
    [el EXCEPT !.value = IF newHref.defined THEN newHref.value ELSE el.value,
               !.target = "_self",
               !.unresolved = Falsy(newHref)]

\* Webpage.remapLinks: every [href] element
remapLinks(doc, relative) ==
    [k \in 1..Len(doc) |->
        IF doc[k].attr = "href" THEN remapElement(doc[k], relative) ELSE doc[k]]

\* Webpage.remapEmbedLinks: every [src] element
remapEmbedLinks(doc, relative) ==
    [k \in 1..Len(doc) |->
        IF doc[k].attr = "src" THEN remapElement(doc[k], relative) ELSE doc[k]]

\* Webpage.srcLinks
srcLinks(doc) ==
    LET IsSrc(el) == el.attr = "src" IN
    [k \in 1..Len(SelectSeq(doc, IsSrc)) |-> SelectSeq(doc, IsSrc)[k].value]

\* lines 584-587 without the lookup in the page's own list
findAttachment_noOwnLookup(list, src) ==
    LET sourcePath == getFilePathFromSrc(src)
        indexed == getFile(sourcePath)
    IN IF indexed.found THEN indexed
       ELSE createAttachmentFromSrc(src, Len(list) + 1)

\* lines 584-587: the attachment of a source path, from the page's own list,
\* else from the index, else created from the vault
findAttachment(list, src) ==
    LET sourcePath == getFilePathFromSrc(src)
        own == IF \E k \in 1..Len(list) : list[k].sourcePath = sourcePath
               THEN LET first == CHOOSE k \in 1..Len(list) :
                                     /\ list[k].sourcePath = sourcePath
                                     /\ \A j \in 1..(k - 1) :
                                            list[j].sourcePath # sourcePath
                    IN Found(list[first], list[first].object)
               ELSE NoFile
        indexed == IF own.found THEN own ELSE getFile(sourcePath)
    IN IF indexed.found THEN indexed
       ELSE createAttachmentFromSrc(src, Len(list) + 1)

\* lines 580-596: one pass of the loop of getAttachments
addAttachment(list, src) ==
    IF isExternal(src) THEN list
    ELSE LET attachment == findAttachment(list, src) IN
         IF getFilePathFromSrc(src) = <<>> \/ ~attachment.found
         THEN list
         ELSE LET entry == [sourcePath |-> attachment.sourcePath,
                            targetPath |-> attachment.targetPath,
                            object |-> attachment.object]
              IN IF \E k \in 1..Len(list) : list[k] = entry
                 THEN list ELSE Append(list, entry)

\* Webpage.getAttachments: the loop over srcLinks
RECURSIVE getAttachments(_, _)
getAttachments(list, sources) ==
    IF sources = <<>> THEN list
    ELSE getAttachments(addAttachment(list, Head(sources)), Tail(sources))

\* the elements a rendered document is made of: anchors, some of which the
\* renderer already marked unresolved, and embeds
Elements ==
    {Element("href", l, FALSE) : l \in Links}
    \cup {Element("href", l, TRUE) : l \in {LinkGone, LinkHttp}}
    \cup {Element("src", l, FALSE) : l \in {LinkHttp, LinkData, LinkImage, LinkNew}}

Documents == UNION {[1..n -> Elements] : n \in 1..MaxElements}

\* Webpage.populateDocument has rendered a document
InitLinks ==
    /\ relativeHeaderLinks \in BOOLEAN
    /\ document \in Documents
    /\ attachments = <<>>
    /\ remapped = FALSE
    /\ discovered = 0
    /\ TitleIdle
    /\ HeadingIdle
    /\ WebsiteInit
    /\ files = <<ChildMd>>

\* Webpage.build lines 421-425
FixLinks ==
    /\ ~remapped
    /\ document' = remapEmbedLinks(remapLinks(document, relativeHeaderLinks),
                                   relativeHeaderLinks)
    /\ remapped' = TRUE
    /\ UNCHANGED <<relativeHeaderLinks, attachments, discovered>>
    /\ UNCHANGED <<websiteVars, titleVars, headingVars>>

\* a call of Webpage.getAttachments
GetAttachments ==
    /\ discovered < MaxDiscoveries
    /\ attachments' = getAttachments(attachments, srcLinks(document))
    /\ discovered' = discovered + 1
    /\ UNCHANGED <<relativeHeaderLinks, document, remapped>>
    /\ UNCHANGED <<websiteVars, titleVars, headingVars>>

NextLinks ==
    \/ FixLinks
    \/ GetAttachments

SpecLinks == InitLinks /\ [][NextLinks]_vars

\* ========================================================= Website.getTitle
\* what a note can put under each key
Authored ==
    [title |-> "My Title", name |-> "My Name", banner_header |-> "My Banner",
     icon |-> "lucide//star", sticker |-> "lucide//sticker",
     banner_icon |-> "lucide//flag"]

Frontmatters ==
    {NoFrontmatter} \cup
    {[defined |-> TRUE, props |-> props] :
        props \in {f \in [FrontmatterKeys -> {Missing, Null, Value("")} \cup
                                             {Value(Authored[k]) : k \in FrontmatterKeys}] :
                       \A k \in FrontmatterKeys :
                           f[k] \in {Missing, Null, Value(""), Value(Authored[k])}}}

TitleProperties == {"title", "name"}
TitleFiles ==
    {[basename |-> "index", extension |-> "md"],
     [basename |-> "board", extension |-> "canvas"],
     [basename |-> "a", extension |-> "png"]}

\* Settings.settings.defaultFileIcon and defaultMediaIcon
defaultFileIcon == "lucide//file"
defaultMediaIcon == "lucide//file-image"

\* Asset.extentionToType(extension) == AssetType.Media
isMedia(extension) == extension \in {"png", "jpg", "mp4"}

\* frontmatter?.[key]
Prop(fm, key) == IF fm.defined THEN fm.props[key] ELSE Missing

\* a ?? b
Coalesce(a, b) == IF a.is \in {"undefined", "null"} THEN b ELSE a

\* !value
Not(value) == value.is \in {"undefined", "null"} \/ value.text = ""

\* line 173 with the banner header looked up first
titleFromFrontmatter_bannerFirst(fm, property) ==
    Coalesce(Prop(fm, "banner_header"), Prop(fm, property))

\* line 173
titleFromFrontmatter(fm, property) ==
    Coalesce(Prop(fm, property), Prop(fm, "banner_header"))

\* line 178 without the showDefaultTreeIcons test
usesDefaultIcon_always(iconProperty, showDefault) ==
    Not(iconProperty)

\* line 178
usesDefaultIcon(iconProperty, showDefault) ==
    Not(iconProperty) /\ showDefault

\* Website.getTitle; icon is the argument HTMLGeneration.getIcon is called with
getTitle(file, fm, property, showDefault) ==
    LET title == Coalesce(titleFromFrontmatter(fm, property), Value(file.basename))
        authored == Coalesce(Coalesce(Prop(fm, "icon"), Prop(fm, "sticker")),
                             Prop(fm, "banner_icon"))
        isDefaultIcon == usesDefaultIcon(authored, showDefault)
        iconProperty ==
            IF ~isDefaultIcon THEN authored
            ELSE IF file.extension = "canvas" THEN Value("lucide//layout-dashboard")
            ELSE IF isMedia(file.extension) THEN Value(defaultMediaIcon)
            ELSE Value(defaultFileIcon)
    IN [returned |-> TRUE, title |-> title,
        icon |-> Coalesce(iconProperty, Value("")),
        isDefaultIcon |-> isDefaultIcon]

\* a file, its cached frontmatter and the settings getTitle reads
InitTitle ==
    /\ titleProperty \in TitleProperties
    /\ showDefaultTreeIcons \in BOOLEAN
    /\ titleFile \in TitleFiles
    /\ frontmatter \in Frontmatters
    /\ titleInfo = NoTitleInfo
    /\ LinksIdle
    /\ HeadingIdle
    /\ WebsiteInit
    /\ files = <<ChildMd>>

\* a call of Website.getTitle(file)
GetTitle ==
    /\ ~titleInfo.returned
    /\ titleInfo' = getTitle(titleFile, frontmatter, titleProperty, showDefaultTreeIcons)
    /\ UNCHANGED <<titleProperty, showDefaultTreeIcons, titleFile, frontmatter>>
    /\ UNCHANGED <<websiteVars, linkVars, headingVars>>

NextTitle == GetTitle

SpecTitle == InitTitle /\ [][NextTitle]_vars

\* ========================================================= Webpage.addTitle
UpperChars == <<"A", "B", "C", "D", "E", "F", "G", "H", "I", "J", "K", "L", "M", "N", "O", "P", "Q", "R", "S", "T", "U", "V", "W", "X", "Y", "Z">>
LowerChars == <<"a", "b", "c", "d", "e", "f", "g", "h", "i", "j", "k", "l", "m", "n", "o", "p", "q", "r", "s", "t", "u", "v", "w", "x", "y", "z">>

\* String.toLowerCase
toLowerCase(str) ==
    [k \in 1..Len(str) |->
        IF \E n \in 1..Len(UpperChars) : UpperChars[n] = str[k]
        THEN LowerChars[CHOOSE n \in 1..Len(UpperChars) : UpperChars[n] = str[k]]
        ELSE str[k]]

Min3(a, b, c) ==
    IF a <= b /\ a <= c THEN a ELSE IF b <= c THEN b ELSE c

\* one row of the edit-distance table: row[j + 1] is the distance of the
\* prefix of a that ends with ca to the first j characters of b
RECURSIVE levenshteinRow(_, _, _, _)
levenshteinRow(prev, ca, b, row) ==
    IF Len(row) = Len(b) + 1 THEN row
    ELSE LET j == Len(row) IN
         levenshteinRow(prev, ca, b,
             Append(row, Min3(prev[j + 1] + 1, row[j] + 1,
                              prev[j] + (IF b[j] = ca THEN 0 ELSE 1))))

RECURSIVE levenshteinFrom(_, _, _, _)
levenshteinFrom(a, b, k, prev) ==
    IF k > Len(a) THEN prev[Len(b) + 1]
    ELSE levenshteinFrom(a, b, k + 1, levenshteinRow(prev, a[k], b, <<k>>))

\* Utils.levenshteinDistance
levenshteinDistance(a, b) ==
    levenshteinFrom(a, b, 1, [j \in 1..(Len(b) + 1) |-> j - 1])

\* a number n / d: d = 0 gives Infinity for n > 0 and NaN for n = 0
Quotient(n, d) == [num |-> n, den |-> d]
IsNaN(q) == q.num = 0 /\ q.den = 0
LessThan(p, q) ==
    /\ ~IsNaN(p) /\ ~IsNaN(q)
    /\ p.den # 0
    /\ q.den = 0 \/ p.num * q.den < q.num * p.den

\* Math.min: NaN when an argument is NaN
MathMin(p, q) ==
    IF IsNaN(p) THEN p ELSE IF IsNaN(q) THEN q
    ELSE IF LessThan(p, q) THEN p ELSE q

\* the thresholds 0.2 and 0.1 of line 702, in tenths
H1Threshold == 2
H2Threshold == 1
\* line 724: childPosition <= 2
TopPosition == 2

\* q < tenths / 10
BelowTenths(q, tenths) == LessThan(q, Quotient(tenths, 10))

\* lines 696-700
difference(header, title, basename) ==
    LET firstHeaderText == toLowerCase(header.text)
        lowerTitle == toLowerCase(title)
        titleDiff == Quotient(levenshteinDistance(firstHeaderText, lowerTitle),
                              Len(lowerTitle))
        basenameDiff == Quotient(levenshteinDistance(firstHeaderText,
                                                     toLowerCase(basename)),
                                 Len(basename))
    IN MathMin(titleDiff, basenameDiff)

\* line 702
similarEnough(tag, diff) ==
    \/ tag = "H1" /\ BelowTenths(diff, H1Threshold)
    \/ tag = "H2" /\ BelowTenths(diff, H2Threshold)

\* lines 716-724: an H1 among the first children of the sizer, no inline title
atTopOfPage(header, inlineTitle) ==
    /\ header.tag = "H1"
    /\ ~inlineTitle
    /\ header.inSizer
    /\ header.childPosition <= TopPosition

\* lines 694-741: the first heading is removed
removesHeader(header, title, basename, inlineTitle) ==
    /\ header.exists
    /\ \/ similarEnough(header.tag, difference(header, title, basename))
       \/ atTopOfPage(header, inlineTitle)

TextGuides == <<"G", "u", "i", "d", "e", "s">>
TextGuide == <<"G", "u", "i", "d", "e">>
TextIntroduction == <<"I", "n", "t", "r", "o", "d", "u", "c", "t", "i", "o", "n">>
TextIntroductions == <<"I", "n", "t", "r", "o", "d", "u", "c", "t", "i", "o", "n", "s">>
TextSetup == <<"S", "e", "t", "u", "p">>
TextIndex == <<"i", "n", "d", "e", "x">>

Basenames == {TextIndex, TextGuides, TextIntroduction}
AuthoredTitles == {TextGuides, TextIntroduction, TextSetup, <<>>}
HeadingTexts == {TextGuides, TextGuide, TextIntroductions, TextSetup, <<>>}

Headers ==
    {NoHeader} \cup
    {[exists |-> TRUE, tag |-> tag, text |-> text, inSizer |-> inSizer,
      childPosition |-> position, removed |-> FALSE] :
        tag \in {"H1", "H2", "H3"}, text \in HeadingTexts,
        inSizer \in BOOLEAN, position \in {0, TopPosition + 1}}

\* a built page before addTitle: a defaulted title is the file's basename
InitAddTitle ==
    /\ pageType \in {"markdown", "canvas"}
    /\ showInlineTitle \in BOOLEAN
    /\ isDefaultTitle \in BOOLEAN
    /\ sourceBasename \in Basenames
    /\ pageTitle \in (IF isDefaultTitle THEN {sourceBasename} ELSE AuthoredTitles)
    /\ firstHeader \in Headers
    /\ titleElement = NoTitleElement
    /\ LinksIdle
    /\ TitleIdle
    /\ WebsiteInit
    /\ files = <<ChildMd>>

\* Webpage.addTitle
AddTitle ==
    /\ ~titleElement.inserted
    /\ ~firstHeader.removed
    /\ pageType = "markdown"
    /\ LET remove == removesHeader(firstHeader, pageTitle, sourceBasename,
                                   showInlineTitle)
           title == IF remove /\ isDefaultTitle THEN firstHeader.text ELSE pageTitle
       IN /\ firstHeader' = [firstHeader EXCEPT !.removed = remove]
          /\ pageTitle' = title
          /\ titleElement' = [inserted |-> TRUE, id |-> title,
                              inline |-> showInlineTitle]
    /\ UNCHANGED <<pageType, showInlineTitle, isDefaultTitle, sourceBasename>>
    /\ UNCHANGED <<websiteVars, linkVars, titleVars>>

NextAddTitle == AddTitle

SpecAddTitle == InitAddTitle /\ [][NextAddTitle]_vars

\* ============================================================ properties
Running == pc \in {"loop", "rendering", "building"}
Current == Running \/ pc \in {"done", "cancelled"}

PathOf(f) == f.relativeDownloadPath.asString
PathSet(list) == {PathOf(f) : f \in Range(list)}

NoTwoSharePath(list) ==
    \A j, k \in 1..Len(list) : j # k => PathOf(list[j]) # PathOf(list[k])

\* C1: after createWithFiles completes, neither dependencies nor downloads
\* holds two entries with the same relative download path, also when the two
\* entries are distinct objects carrying the same path
C1_NoTwoEntriesSharePath ==
    pc = "done" => NoTwoSharePath(dependencies) /\ NoTwoSharePath(downloads)

NoRecordOrNewerOrResized(d) ==
    LET rec == indexAtStart[TargetPath(d)] IN
    \/ ~rec.has
    \/ meta[d].modifiedTime > rec.modifiedTime
    \/ meta[d].size # rec.sourceSize

\* C3: in an incremental run a document is rebuilt exactly when it has no
\* index record, or is newer than its record, or its byte length differs from
\* the record's; a full export on an empty index invokes the page builder for
\* every document and leaves a record for every page it built
C3_RebuiltExactlyWhenChanged ==
    /\ (Current /\ useIncrementalExport) =>
           \A d \in reached : d \in created <=> NoRecordOrNewerOrResized(d)
    /\ (pc = "done" /\ ~useIncrementalExport /\ indexAtStart = EmptyIndex) =>
           \A d \in Range(files) :
               /\ d \in created
               /\ d \in Range(webpages) =>
                      index[TargetPath(d)] = Record(meta[d].modifiedTime, meta[d].size)

C3_Witness ==
    /\ pc = "done"
    /\ run = 2
    /\ useIncrementalExport
    /\ files = <<IndexMd, ChildMd>>
    /\ indexAtStart[TargetPath(IndexMd)] = Record(meta[IndexMd].modifiedTime, meta[IndexMd].size)
    /\ indexAtStart[TargetPath(ChildMd)].has
    /\ indexAtStart[TargetPath(ChildMd)].modifiedTime = meta[ChildMd].modifiedTime
    /\ indexAtStart[TargetPath(ChildMd)].sourceSize # meta[ChildMd].size
    /\ created = {ChildMd}
    /\ skipped = {IndexMd}
    /\ webpages = <<ChildMd>>

\* entries a document's page would have added: its page file and its own attachments
AddedFor(d, list) ==
    {f \in Range(list) : PathOf(f) = TargetPath(d) \/ f.relativeDownloadPath.ref = d.stem}

\* C4: in an incremental run a document the index reports unchanged never
\* reaches webpage.create and adds nothing to webpages, downloads or
\* dependencies; in a non-incremental run every document reached is built
C4_UnchangedNeverBuilt ==
    Current =>
        /\ useIncrementalExport =>
               /\ \A d \in reached : ~isFileChanged(indexAtStart, d, meta) =>
                      /\ d \notin created
                      /\ d \notin Range(webpages)
                      /\ AddedFor(d, downloads) = {}
                      /\ AddedFor(d, dependencies) = {}
               /\ (Running /\ created = {}) =>
                      webpages = <<>> /\ downloads = <<>> /\ dependencies = <<>>
        /\ ~useIncrementalExport => reached \subseteq created

C4_Witness ==
    /\ pc = "done"
    /\ useIncrementalExport
    /\ skipped = {IndexMd}
    /\ created = {ChildMd}
    /\ ~isFileChanged(indexAtStart, IndexMd, meta)
    /\ AddedFor(ChildMd, downloads) # {}

\* C5: a cancellation raised at any point before the index commit ends the
\* run Cancelled: no website is returned, index.build is not executed and the
\* prior index stays untouched
C5_CancelNeverCommits ==
    cancelled => pc # "done" /\ ~built /\ index = indexAtStart

Candidates(path) ==
    IF pc = "done" /\ useIncrementalExport
    THEN {f \in Range(committed) : PathOf(f) = path}
    ELSE {}

\* C7 as stated: with an index record of byte length 1024 for fonts/a.woff2,
\* a candidate of byte length 1024 and older modified time is dropped and a
\* candidate of byte length 2048 is kept
C7_ResizedFontKept ==
    LET rec == indexAtStart[FontA] IN
    (rec.has /\ rec.sourceSize = 1024) =>
        \A f \in Candidates(FontA) :
            /\ (f.size = 1024 /\ f.modifiedTime < rec.modifiedTime) =>
                   f \notin Range(downloads) /\ f \notin Range(dependencies)
            /\ f.size = 2048 => f \in Range(downloads)

\* C7 amended: the candidate of byte length 1024 and older modified time is
\* dropped, and the candidate of byte length 2048 is dropped as well
C7_ResizedFontDropped ==
    LET rec == indexAtStart[FontA] IN
    (rec.has /\ rec.sourceSize = 1024) =>
        \A f \in Candidates(FontA) :
            /\ (f.size = 1024 /\ f.modifiedTime < rec.modifiedTime) =>
                   f \notin Range(downloads) /\ f \notin Range(dependencies)
            /\ f.size = 2048 =>
                   f \notin Range(downloads) /\ f \notin Range(dependencies)

C7_Witness ==
    /\ indexAtStart[FontA].has
    /\ indexAtStart[FontA].sourceSize = 1024
    /\ \E f \in Candidates(FontA) : f.size = 2048 /\ f \notin Range(downloads)

\* C8: in an incremental run every font file whose path has an index record
\* is dropped whatever its time and size, and for each of the four font
\* extensions it is the existence of that record that triggers the font rule
C8_FontDropTriggeredByRecord ==
    \A path \in OutputPaths : \A f \in Candidates(path) :
        IsFont(path) =>
            /\ hasFileByPath(indexAtStart, path) => f \notin Range(downloads)
            /\ filterBranch(f, indexAtStart) = "font"
                   <=> hasFileByPath(indexAtStart, path)

\* C9: in an incremental run every non-page file whose path has no index
\* record is kept by the keep/drop pass
C9_NewFileKept ==
    \A path \in OutputPaths : \A f \in Candidates(path) :
        (~EndsWith(path, "html") /\ ~indexAtStart[path].has) =>
            f \in Range(downloads)

\* C10: in an incremental run a non-page, non-font file whose path has an
\* index record is kept exactly when its modified time is newer than the
\* record's or its byte length differs from the record's source size
C10_RecordedFileKeptIffModified ==
    \A path \in OutputPaths : \A f \in Candidates(path) :
        LET rec == indexAtStart[path] IN
        (~EndsWith(path, "html") /\ ~IsFont(path) /\ rec.has) =>
            /\ f \in Range(downloads)
                   <=> (f.modifiedTime > rec.modifiedTime \/ f.size # rec.sourceSize)
            /\ f \in Range(dependencies) =>
                   (f.modifiedTime > rec.modifiedTime \/ f.size # rec.sourceSize)

C10_Witness ==
    /\ \E f \in Candidates(StyleCss) :
           /\ indexAtStart[StyleCss].has
           /\ f.modifiedTime > indexAtStart[StyleCss].modifiedTime
           /\ f \in Range(downloads)
           /\ f \in Range(dependencies)
    /\ \E g \in Candidates(ImgA) :
           /\ indexAtStart[ImgA] = Record(g.modifiedTime, g.size)
           /\ g \notin Range(downloads)

\* C11: in an incremental run the keep/drop pass never drops a page file:
\* every page built in the run is in downloads when createWithFiles returns,
\* whatever the index holds for its path
C11_PagesNeverDropped ==
    (pc = "done" /\ useIncrementalExport) =>
        /\ \A d \in Range(webpages) : SelfDownloadable(d, meta) \in Range(downloads)
        /\ \A f \in Range(committed) :
               EndsWith(PathOf(f), "html") => f \in Range(downloads)

C11_Witness ==
    /\ pc = "done"
    /\ useIncrementalExport
    /\ \E d \in Range(webpages) :
           /\ ~indexAtStart[TargetPath(d)].has
           /\ SelfDownloadable(d, meta) \in Range(downloads)
    /\ \E f \in Range(committed) : f \notin Range(downloads)

\* the paths the loop and the shared assets put into dependencies
CollectedDependencyPaths ==
    UNION {Range(PageSources(d)) : d \in Range(webpages)} \cup AssetPaths

\* C12: in a non-incremental run the keep/drop pass is not applied:
\* filterDownloads only removes duplicates and every other collected file
\* stays in dependencies and downloads, whatever the index records say
C12_FullRunOnlyRemovesDuplicates ==
    (pc = "done" /\ ~useIncrementalExport) =>
        /\ downloads = RemoveDuplicates(collected)
        /\ PathSet(downloads) = PathSet(collected)
        /\ PathSet(dependencies) = CollectedDependencyPaths
        /\ \A f \in Range(dependencies) : f \in Range(downloads)

C12_Witness ==
    /\ pc = "done"
    /\ ~useIncrementalExport
    /\ hasIndex
    /\ webpages # <<>>
    /\ Len(downloads) < Len(collected)
    /\ \E f \in Range(downloads) :
           /\ ~EndsWith(PathOf(f), "html")
           /\ indexAtStart[PathOf(f)] = Record(f.modifiedTime, f.size)

\* C13: a failure while building one document (the Webpage constructor
\* throwing for an unsupported file type) never aborts the batch
C13_DocumentFailureNeverAborts ==
    pc # "threw"

\* the documents after d in the batch
LaterDocuments(d) ==
    {files[k] : k \in {n \in 1..Len(files) :
                           \E j \in 1..(n - 1) : files[j] = d}}

\* what holds of a document whose build produced no page
NothingAddedFor(d) ==
    /\ d \notin Range(webpages)
    /\ AddedFor(d, downloads) = {}
    /\ AddedFor(d, dependencies) = {}
    /\ index[TargetPath(d)] = indexAtStart[TargetPath(d)]

\* C14 as stated: when the page builder produces no page for a document
\* (content empty or render cancelled) nothing is added for it, its index
\* record stays as it was, and every later document is still processed
C14_NoPageThenLaterDocumentsProcessed ==
    pc \in {"done", "cancelled"} =>
        \A d \in noPage :
            /\ NothingAddedFor(d)
            /\ LaterDocuments(d) \subseteq reached

\* C14 amended: nothing is added and the record stays; the loop goes on to
\* the next document, where a run whose render was cancelled ends at the
\* cancellation check instead of processing the later documents
C14_NoPageThenNextDocument ==
    /\ Current => \A d \in noPage : NothingAddedFor(d)
    /\ pc \in {"done", "cancelled"} =>
           \A d \in noPage :
               \/ LaterDocuments(d) \subseteq reached
               \/ pc = "cancelled" /\ cancelled

C14_Witness ==
    /\ pc = "done"
    /\ ~cancelled
    /\ files = <<IndexMd, ChildMd>>
    /\ noPage = {IndexMd}
    /\ indexAtStart[TargetPath(IndexMd)].has
    /\ index[TargetPath(IndexMd)] = indexAtStart[TargetPath(IndexMd)]
    /\ webpages = <<ChildMd>>

\* the documents whose webpage.create has been called and has not returned
InFlight == created \ (Range(webpages) \cup noPage)

workingLists == <<webpages, downloads, dependencies>>

\* C22: no two documents are rendered at the same time within one batch: the
\* loop starts document i+1 only after the build of document i has returned,
\* and webpages, downloads and dependencies are never written while a render
\* is in flight
C22_OneRenderAtATime ==
    /\ [](/\ Cardinality(InFlight) <= 1
          /\ InFlight # {} => pc \in {"rendering", "building"} /\ InFlight = {files[i]}
          /\ pc \in {"rendering", "building"} => InFlight = {files[i]})
    /\ [][workingLists' # workingLists => InFlight' = {}]_vars

C22_Witness ==
    /\ pc = "rendering"
    /\ i = 2
    /\ files = <<IndexMd, ChildMd>>
    /\ webpages = <<IndexMd>>
    /\ InFlight = {ChildMd}

\* the entries of a list that are the first with their path, in list order
KeepFirstByPath(list) ==
    LET first == {k \in 1..Len(list) :
                      \A j \in 1..(k - 1) : PathOf(list[j]) # PathOf(list[k])}
        RECURSIVE Take(_)
        Take(k) == IF k > Len(list) THEN <<>>
                   ELSE (IF k \in first THEN <<list[k]>> ELSE <<>>) \o Take(k + 1)
    IN Take(1)

\* C23: the duplicate-removal pass keeps for every target path the entry that
\* comes first and removes all later entries with that path, in the order of
\* the kept entries; a page's attachment wins over a shared asset with its path
C23_KeepsFirstPerPath ==
    (pc = "done" /\ ~useIncrementalExport) =>
        downloads = KeepFirstByPath(collected)

IsPageFile(f) == EndsWith(PathOf(f), "html")

\* C26: when createWithFiles returns a website every entry of dependencies is
\* an entry of downloads, and the only entries of downloads that are not in
\* dependencies are the built pages' own page files
C26_DependenciesWithinDownloads ==
    pc = "done" =>
        /\ \A f \in Range(dependencies) : f \in Range(downloads)
        /\ PathSet(dependencies) \subseteq PathSet(downloads)
        /\ {f \in Range(downloads) : f \notin Range(dependencies)}
               = {SelfDownloadable(d, meta) : d \in Range(webpages)}
        /\ \A f \in Range(downloads) : IsPageFile(f) <=> f \notin Range(dependencies)

C26_Witness ==
    /\ pc = "done"
    /\ useIncrementalExport
    /\ webpages # <<>>
    /\ dependencies # <<>>
    /\ Len(downloads) = Len(dependencies) + Len(webpages)
    /\ Len(downloads) < Len(collected)

\* ----------------------------------------------------------- link remapping
ElementsOf(doc) == {doc[k] : k \in 1..Len(doc)}

\* C15: for every href or src that is an external URL (scheme://, other than
\* app://) or a data: URI, link remapping leaves the attribute value character
\* for character unchanged and attachment discovery adds no Attachment for it
C15_ExternalLinksUntouched ==
    /\ remapped =>
           \A el \in ElementsOf(document) :
               isExternal(el.original) => el.value = el.original
    /\ \A a \in Range(attachments) :
           \E el \in ElementsOf(document) :
               /\ el.attr = "src"
               /\ ~isExternal(el.original)
               /\ a.sourcePath = getFilePathFromSrc(el.original)
    /\ Len(attachments) <=
           Cardinality({k \in 1..Len(document) :
                            /\ document[k].attr = "src"
                            /\ ~isExternal(document[k].original)})

C15_Witness ==
    /\ remapped
    /\ discovered > 0
    /\ Len(document) = 2
    /\ document[1] = [Element("src", LinkHttp, FALSE) EXCEPT
                          !.target = "_self", !.unresolved = TRUE]
    /\ document[2].original = LinkImage
    /\ Len(attachments) = 1
    /\ attachments[1].sourcePath = ImageAttachment.sourcePath

\* C24: after getAttachments the page's attachments hold no two entries with
\* the same source path and no entry for a data: URI or external URL src, and
\* calling getAttachments again on the same document leaves the list unchanged
C24_AttachmentsUniqueAndStable ==
    /\ [](/\ \A j, k \in 1..Len(attachments) :
                 j # k => attachments[j].sourcePath # attachments[k].sourcePath
          /\ \A el \in ElementsOf(document) :
                 (el.attr = "src" /\ isExternal(el.original)) =>
                     \A a \in Range(attachments) :
                         a.sourcePath # getFilePathFromSrc(el.original))
    /\ [][(discovered >= 1 /\ discovered' = discovered + 1) =>
              attachments' = attachments]_vars

C24_Witness ==
    /\ discovered = 2
    /\ Len(document) = 2
    /\ document[1].original = LinkNew
    /\ document[2].original = LinkNew
    /\ Len(attachments) = 1
    /\ attachments[1].sourcePath = NewAttachment.sourcePath

\* a link that is nothing but a heading fragment
PureHeadingFragment(link) == StartsWith(link, <<"#">>) /\ ~isExternal(link)

\* the heading slug: the colons removed, every space an underscore
SlugOf(text) ==
    LET NotColon(c) == c # ":"
        kept == SelectSeq(text, NotColon)
    IN [k \in 1..Len(kept) |-> IF kept[k] = " " THEN "_" ELSE kept[k]]

IntroSetupHref == <<"#", "I", "n", "t", "r", "o", "_", "S", "e", "t", "u", "p">>
SectionOneHref == <<"n", "o", "t", "e", "s", "/", "c", "h", "i", "l", "d", ".", "h", "t", "m", "l", "#", "S", "e", "c", "t", "i", "o", "n", "_", "O", "n", "e">>

FragmentOf(link) == SubSeq(link, IndexOf(link, "#") + 1, Len(link))

\* a link path#fragment with one fragment, to a file the index knows
FragmentLinkTo(link, file) ==
    /\ ~isExternal(link)
    /\ ~StartsWith(link, <<"#">>)
    /\ ~StartsWith(link, <<"?">>)
    /\ getFilePathFromSrc(link) = file.sourcePath
    /\ IndexOf(link, "#") # 0
    /\ FragmentOf(link) # <<>>
    /\ IndexOf(FragmentOf(link), "#") = 0

LocalPathLink(link) == ~isExternal(link) /\ ~StartsWith(link, <<"#">>)

\* C18: after link remapping a link carries the unresolved marker exactly when
\* it is a local path link whose destination matched no known output path,
\* and every such link keeps its original href
C18_UnresolvedIffLocalWithoutMatch ==
    remapped =>
        \A el \in ElementsOf(document) :
            /\ el.unresolved <=>
                   /\ LocalPathLink(el.original)
                   /\ ~getFile(getFilePathFromSrc(el.original)).found
            /\ el.unresolved => el.value = el.original

\* ------------------------------------------------------------------ getTitle
\* a frontmatter field is present when it holds a value
Present(key) == frontmatter.defined /\ frontmatter.props[key].is = "string"

\* C19: getTitle returns as title the configured frontmatter title field when
\* present, else banner_header when present, else the file name without
\* extension, for every combination of present and absent fields
C19_TitleFallbackOrder ==
    titleInfo.returned =>
        titleInfo.title =
            IF Present(titleProperty) THEN frontmatter.props[titleProperty]
            ELSE IF Present("banner_header") THEN frontmatter.props["banner_header"]
            ELSE Value(titleFile.basename)

C19_Witness ==
    /\ titleInfo.returned
    /\ titleProperty = "name"
    /\ Present("title")
    /\ ~Present("name")
    /\ Present("banner_header")
    /\ titleInfo.title = Value("My Banner")

IconKeys == {"icon", "sticker", "banner_icon"}

\* C20 as stated: isDefaultIcon is true exactly when the frontmatter authors
\* no icon (none of icon, sticker, banner_icon), for every setting
C20_DefaultIconIffNoneAuthored ==
    titleInfo.returned =>
        (titleInfo.isDefaultIcon <=> \A k \in IconKeys : ~Present(k))

\* the icon property getTitle reads: the first of icon, sticker, banner_icon
\* that is present
FirstPresentIcon ==
    IF Present("icon") THEN frontmatter.props["icon"]
    ELSE IF Present("sticker") THEN frontmatter.props["sticker"]
    ELSE IF Present("banner_icon") THEN frontmatter.props["banner_icon"]
    ELSE Missing

\* C20 amended: isDefaultIcon is true exactly when showDefaultTreeIcons is on
\* and the icon property read from the frontmatter is missing or empty
C20_DefaultIconIffSettingAndNoIcon ==
    titleInfo.returned =>
        (titleInfo.isDefaultIcon <=>
            /\ showDefaultTreeIcons
            /\ FirstPresentIcon \in {Missing, Value("")})

C20_Witness ==
    /\ titleInfo.returned
    /\ ~showDefaultTreeIcons
    /\ \A k \in IconKeys : ~Present(k)
    /\ ~titleInfo.isDefaultIcon
    /\ titleInfo.icon = Value("")

\* ------------------------------------------------------------------ addTitle
\* addTitle has run on a markdown page that has a first heading
TitleAdded == titleElement.inserted /\ firstHeader.exists

\* the title addTitle started with: a defaulted title is the basename
OriginalTitle == IF isDefaultTitle THEN sourceBasename ELSE pageTitle

WithinThreshold ==
    similarEnough(firstHeader.tag,
                  difference(firstHeader, OriginalTitle, sourceBasename))

\* C21: with an explicitly authored title addTitle never removes the first
\* heading; the heading is removed only when the title was defaulted and the
\* heading is within the similarity threshold
C21_AuthoredTitleKeepsHeading ==
    (TitleAdded /\ firstHeader.removed) => (isDefaultTitle /\ WithinThreshold)

\* C25: every (heading text, title) pair that makes an H1 collapse makes an
\* H2 with the same text collapse
C25_H2LooserThanH1 ==
    (/\ TitleAdded
     /\ firstHeader.tag = "H2"
     /\ similarEnough("H1", difference(firstHeader, OriginalTitle, sourceBasename)))
        => firstHeader.removed

====
